---- MODULE Spec2Model ----
(***************************************************************************)
(* A model of the basketballref scrapers: SeasonSchedule (schedule.py),    *)
(* Player (player.py), Roster (roster.py) and BoxScore (box_score.py).     *)
(* Each constructor is a sequential program that fetches pages from the    *)
(* site and turns their tables into a pandas DataFrame.  The site is the   *)
(* environment: what it serves is chosen in the initial state.             *)
(*                                                                         *)
(* A cell value is tagged: Str(text), Num(n), or NaN (numpy.nan).  A       *)
(* DataFrame is [columns, index, rows]: the column labels in order, the    *)
(* index labels in row order, and one function column -> value per row.    *)
(***************************************************************************)
EXTENDS Integers, Sequences, FiniteSets, TLC

VARIABLES
    pc,          \* position in the running constructor
    err,         \* the exception that left the constructor, "none" if none
    web,         \* what the site serves
    args,        \* the constructor's arguments
    i,           \* index of the outer loop
    j,           \* index of the inner loop
    fetched,     \* the pq(url) calls made so far, in order (Player: with their outcome)
    dfs,         \* the local list dfs
    to_merge,    \* the local list to_merge (Player)
    tables,      \* the local list tables (BoxScore)
    self_df,     \* self.df: <<>> until assigned, then <<frame>>
    final_score  \* self.final_score (BoxScore): <<>> until assigned

vars == <<pc, err, web, args, i, j, fetched, dfs, to_merge, tables, self_df, final_score>>

----------------------------------------------------------------------------
(* Bounds of the model *)

MaxRows == 2      \* body rows of a table
MaxMonths == 2    \* length of the months argument

----------------------------------------------------------------------------
(* Values, dictionaries and DataFrames *)

NaN == <<"nan">>
None == <<"none">>
Str(s) == <<"str", s>>
Num(n) == <<"num", n>>
Bool(b) == <<"bool", b>>
Date(d) == <<"date", d>>

\* An attribute the element does not carry: attr() returns None for it.
Absent == "#absent"

\* replace = {"": np.nan};  replace.get(text, text)
replace_get(text) == IF text = "" THEN NaN ELSE Str(text)

\* the value a row dict holds for a cell's text: replace.get(text, text) where
\* the code substitutes, the text itself where it does not
CellValue(text, substitutes) == IF substitutes THEN replace_get(text) ELSE Str(text)

Range(s) == {s[k] : k \in DOMAIN s}

RECURSIVE Dedup(_)
\* the distinct elements of a sequence in order of first appearance
Dedup(s) ==
    IF s = <<>> THEN <<>>
    ELSE LET front == Dedup(SubSeq(s, 1, Len(s) - 1))
             last == s[Len(s)]
         IN IF last \in Range(front) THEN front ELSE Append(front, last)

RECURSIVE Flatten(_)
Flatten(ss) == IF ss = <<>> THEN <<>> ELSE Head(ss) \o Flatten(Tail(ss))

\* A dict: its keys in insertion order and its values.
EmptyDict == [keys |-> <<>>, val |-> <<>>]

DictSet(d, k, v) ==
    [keys |-> IF k \in Range(d.keys) THEN d.keys ELSE Append(d.keys, k),
     val |-> [x \in Range(d.keys) \cup {k} |-> IF x = k THEN v ELSE d.val[x]]]

RECURSIVE DictOfCells(_, _)
\* {cell.attr("data-stat"): value of cell.text() for cell in cells}
DictOfCells(cells, substitutes) ==
    IF cells = <<>> THEN EmptyDict
    ELSE LET c == cells[Len(cells)]
         IN DictSet(DictOfCells(SubSeq(cells, 1, Len(cells) - 1), substitutes),
                    c.stat, CellValue(c.text, substitutes))

EmptyFrame == [columns |-> <<>>, index |-> <<>>, rows |-> <<>>]

RangeIndex(n) == [k \in 1..n |-> k - 1]

\* a row over the columns cols, NaN where the row has no such column
Reindexed(r, cols) == [c \in Range(cols) |-> IF c \in DOMAIN r THEN r[c] ELSE NaN]

\* pd.DataFrame(list of dicts): the columns are the keys in order of first
\* appearance, a key a dict lacks is NaN, the index is 0..n-1.
DataFrameOfDicts(ds) ==
    LET cols == Dedup(Flatten([k \in DOMAIN ds |-> ds[k].keys]))
    IN [columns |-> cols,
        index |-> RangeIndex(Len(ds)),
        rows |-> [k \in DOMAIN ds |-> Reindexed(ds[k].val, cols)]]

\* pd.concat(frames, axis=0, sort=False): column union in order of first
\* appearance, rows in list order; the index is renumbered with ignore_index.
ConcatRows(frames, ignore_index) ==
    LET cols == Dedup(Flatten([k \in DOMAIN frames |-> frames[k].columns]))
        rws == Flatten([k \in DOMAIN frames |->
                   [n \in DOMAIN frames[k].rows |-> Reindexed(frames[k].rows[n], cols)]])
    IN [columns |-> cols,
        index |-> IF ignore_index THEN RangeIndex(Len(rws))
                  ELSE Flatten([k \in DOMAIN frames |-> frames[k].index]),
        rows |-> rws]

\* df[cols]: the frame cut to the columns cols, in that order
SelectColumns(df, cols) ==
    [columns |-> cols,
     index |-> df.index,
     rows |-> [n \in DOMAIN df.rows |-> [c \in Range(cols) |-> df.rows[n][c]]]]

\* df.columns = names
SetColumnNames(df, names) ==
    [columns |-> names,
     index |-> df.index,
     rows |-> [n \in DOMAIN df.rows |->
                 [c \in Range(names) |->
                     df.rows[n][df.columns[CHOOSE k \in DOMAIN names : names[k] = c]]]]]

\* A result of a call that may raise.
Ok(v) == [err |-> "none", value |-> v]
Raise(e) == [err |-> e, value |-> EmptyFrame]

----------------------------------------------------------------------------
(* schedule.py *)

\* The months of the model, two of the nine of all_months: the first of a
\* season and the one whose page holds the "Playoffs" line.
MonthNames == {"october", "april"}

\* The dates a schedule page prints, and what pd.to_datetime makes of them.
DateValue == ("Oct 17" :> 1017) @@ ("Apr 14" :> 414) @@ ("Apr 15" :> 415)

to_datetime(v) == IF v[1] = "str" /\ v[2] \in DOMAIN DateValue THEN Date(DateValue[v[2]]) ELSE v

Cell(stat, text) == [stat |-> stat, text |-> text]

\* Body rows of a schedule page: a played game, a game without attendance
\* and scores yet, and the "Playoffs" divider of the April page.
SchedGameRow ==
    [cls |-> "", th |-> <<[text |-> "Oct 17", csk |-> "201710170CLE"]>>,
     td |-> <<Cell("visitor_team_name", "BOS"), Cell("visitor_pts", "99"),
              Cell("home_team_name", "CLE"), Cell("home_pts", "102"),
              Cell("attendance", "20,562")>>]
SchedOpenRow ==
    [cls |-> "", th |-> <<[text |-> "Apr 14", csk |-> "201804140GSW"]>>,
     td |-> <<Cell("visitor_team_name", "SAS"), Cell("visitor_pts", ""),
              Cell("home_team_name", "GSW"), Cell("home_pts", ""),
              Cell("attendance", "")>>]
SchedPlayoffsRow ==
    [cls |-> "thead", th |-> <<[text |-> "Playoffs", csk |-> Absent]>>, td |-> <<>>]

SchedRowPool == {SchedGameRow, SchedOpenRow, SchedPlayoffsRow}

RowSeqs(pool, n) == UNION {[1..k -> pool] : k \in 0..n}

SchedPages == RowSeqs(SchedRowPool, MaxRows)

\* What a fetch gives: the page, or HTTPError (404).
Found(body) == [status |-> 200, body |-> body]
NotFound == [status |-> 404, body |-> <<>>]

\* row("th").eq(0).text() and row("th").eq(0).attr("csk")
ThText(row) == IF row.th = <<>> THEN "" ELSE row.th[1].text
ThAttrCsk(row) == IF row.th = <<>> \/ row.th[1].csk = Absent THEN None ELSE Str(row.th[1].csk)

\* this_row of one body row (schedule.py lines 36-40)
Schedule_this_row(row) ==
    DictSet(DictSet(DictOfCells(row.td, FALSE), "date", Str(ThText(row))),
            "uri", ThAttrCsk(row))

\* if this_row["date"] == "Playoffs": continue
Schedule_skips(row) == ThText(row) = "Playoffs"

Schedule_keep(row) == ~Schedule_skips(row)

RECURSIVE UpToPlayoffs(_)
UpToPlayoffs(body) ==
    IF body = <<>> \/ Schedule_skips(Head(body)) THEN <<>>
    ELSE <<Head(body)>> \o UpToPlayoffs(Tail(body))

\* Schedule_rows with the loop left at the "Playoffs" line (break for continue)
Schedule_rows_break(body) ==
    LET kept == UpToPlayoffs(body)
    IN [k \in DOMAIN kept |-> Schedule_this_row(kept[k])]

\* rows, as the loop over body("tr") leaves it
Schedule_rows(body) ==
    LET kept == SelectSeq(body, Schedule_keep)
    IN [k \in DOMAIN kept |-> Schedule_this_row(kept[k])]

Schedule_columns_kept ==
    <<"date", "visitor_team_name", "home_team_name", "home_pts", "visitor_pts", "attendance", "uri">>
Schedule_columns_named ==
    <<"date", "away", "home", "home_PTS", "away_PTS", "attendance", "uri">>

\* _process_webpage of schedule.py: selecting the columns raises KeyError
\* when the frame lacks one of them (a page without a game row).
Schedule_process_webpage(body) ==
    LET frame == DataFrameOfDicts(Schedule_rows(body))
    IN IF Range(Schedule_columns_kept) \subseteq Range(frame.columns)
       THEN Ok(SetColumnNames(SelectColumns(frame, Schedule_columns_kept), Schedule_columns_named))
       ELSE Raise("KeyError")

\* self.df["date"] = pd.to_datetime(self.df["date"])
Schedule_dates(df) ==
    [df EXCEPT !.rows = [n \in DOMAIN df.rows |->
                            [df.rows[n] EXCEPT !["date"] = to_datetime(@)]]]

MonthLists == UNION {[1..k -> MonthNames] : k \in 0..MaxMonths}

SchedInit ==
    /\ pc = "months"
    /\ err = "none"
    /\ web \in [MonthNames -> {NotFound} \cup {Found(b) : b \in SchedPages}]
    /\ args \in {[months |-> m] : m \in MonthLists}
    /\ i = 1
    /\ j = 1
    /\ fetched = <<>>
    /\ dfs = <<>>
    /\ to_merge = <<>>
    /\ tables = <<>>
    /\ self_df = <<>>
    /\ final_score = <<>>

\* One turn of the loop over self.months whose pq(...) raises HTTPError:
\* the except clause continues with the next month.
SchedMonthMissing ==
    /\ pc = "months"
    /\ i <= Len(args.months)
    /\ web[args.months[i]].status = 404
    /\ fetched' = Append(fetched, args.months[i])
    /\ i' = i + 1
    /\ UNCHANGED <<pc, err, web, args, j, dfs, to_merge, tables, self_df, final_score>>

\* One turn of the loop whose page exists: process it and append its frame.
SchedMonthPage ==
    /\ pc = "months"
    /\ i <= Len(args.months)
    /\ web[args.months[i]].status = 200
    /\ fetched' = Append(fetched, args.months[i])
    /\ LET r == Schedule_process_webpage(web[args.months[i]].body)
       IN IF r.err = "none"
          THEN /\ dfs' = Append(dfs, r.value)
               /\ i' = i + 1
               /\ UNCHANGED <<pc, err>>
          ELSE /\ pc' = "raised"
               /\ err' = r.err
               /\ UNCHANGED <<dfs, i>>
    /\ UNCHANGED <<web, args, j, to_merge, tables, self_df, final_score>>

\* pd.concat(dfs, axis=0, ignore_index=True): ValueError on an empty list
Schedule_concat(frames) ==
    IF frames = <<>> THEN Raise("ValueError") ELSE Ok(ConcatRows(frames, TRUE))

\* After the loop: self.df = pd.concat(dfs, ...), the dates, the name.
SchedConcat ==
    /\ pc = "months"
    /\ i > Len(args.months)
    /\ LET r == Schedule_concat(dfs)
       IN IF r.err = "none"
          THEN /\ self_df' = <<Schedule_dates(r.value)>>
               /\ pc' = "done"
               /\ UNCHANGED err
          ELSE /\ pc' = "raised"
               /\ err' = r.err
               /\ UNCHANGED self_df
    /\ UNCHANGED <<web, args, i, j, fetched, dfs, to_merge, tables, final_score>>

SchedNext == SchedMonthMissing \/ SchedMonthPage \/ SchedConcat

SpecSchedule == SchedInit /\ [][SchedNext]_vars

----------------------------------------------------------------------------
(* pandas helpers of player.py, roster.py and box_score.py *)

\* The numerals the pages print, and the numbers pd.to_numeric reads in them.
NumeralValue ==
    ("0" :> 0) @@ ("00" :> 0) @@ ("1" :> 1) @@ ("2" :> 2) @@ ("7" :> 7) @@ ("8" :> 8)
    @@ ("12" :> 12) @@ ("30" :> 30) @@ ("118" :> 118)

Parses(v) ==
    \/ v = NaN
    \/ v[1] \in {"num", "bool"}
    \/ v[1] = "str" /\ (v[2] = "" \/ v[2] \in DOMAIN NumeralValue)

ParsedValue(v) ==
    IF v[1] = "str" THEN (IF v[2] = "" THEN NaN ELSE Num(NumeralValue[v[2]])) ELSE v

\* df.apply(lambda x: pd.to_numeric(x, errors="ignore")) on the columns cols:
\* a column is converted when every value of it parses, and left as it is
\* otherwise.
to_numeric(df, cols) ==
    LET converts(c) == \A n \in DOMAIN df.rows : Parses(df.rows[n][c])
    IN [df EXCEPT !.rows =
           [n \in DOMAIN df.rows |->
               [c \in DOMAIN df.rows[n] |->
                   IF c \in cols /\ converts(c) THEN ParsedValue(df.rows[n][c])
                   ELSE df.rows[n][c]]]]

\* df.rename(columns=mapping)
rename(df, mapping) ==
    LET new(c) == IF c \in DOMAIN mapping THEN mapping[c] ELSE c
    IN [columns |-> [k \in DOMAIN df.columns |-> new(df.columns[k])],
        index |-> df.index,
        rows |-> [n \in DOMAIN df.rows |->
                    [c \in {new(x) : x \in Range(df.columns)} |->
                        df.rows[n][CHOOSE x \in Range(df.columns) : new(x) = c]]]]

\* {th.attr("data-stat"): th.text() for th in header cells}
HeaderLabels(cells) ==
    [s \in {cells[k].stat : k \in DOMAIN cells} |->
        cells[CHOOSE k \in DOMAIN cells :
                 /\ cells[k].stat = s
                 /\ \A m \in DOMAIN cells : cells[m].stat = s => m <= k].text]

\* df.drop(columns=[c]): KeyError when the frame has no column c
drop_column(df, c) ==
    IF c \notin Range(df.columns) THEN Raise("KeyError")
    ELSE LET cols == SelectSeq(df.columns, LAMBDA x : x # c)
         IN Ok(SelectColumns(df, cols))

\* df.loc[mask]: the rows of df, with their index labels, whose place is in
\* kept
FilterRows(df, kept) ==
    LET keep == SelectSeq([n \in DOMAIN df.rows |-> n], LAMBDA n : n \in kept)
    IN [columns |-> df.columns,
        index |-> [k \in DOMAIN keep |-> df.index[keep[k]]],
        rows |-> [k \in DOMAIN keep |-> df.rows[keep[k]]]]

\* The column labels of the model in lexicographic order, as Index.difference
\* sorts them.
LabelOrder == <<"A", "B", "C", "GS", "MP", "ORtg", "PTS", "TS%", "Team", "away_game", "started">>

SortedLabels(set) == SelectSeq(LabelOrder, LAMBDA c : c \in set)

----------------------------------------------------------------------------
(* player.py *)

MaxSeasons == 2   \* length of the seasons argument

Seasons == {2017, 2018}

\* The dates of a season's games in page order: the regular-season table,
\* then the playoff table.
GameDates ==
    (2017 :> <<"2016-10-25", "2016-10-28", "2016-11-01", "2016-11-03">>)
    @@ (2018 :> <<"2017-10-17", "2017-10-20", "2017-10-21", "2017-10-24">>)
PlayoffDates == (2017 :> "2017-04-15") @@ (2018 :> "2018-04-14")

GameDateValue ==
    ("2016-10-25" :> 20161025) @@ ("2016-10-28" :> 20161028) @@ ("2016-11-01" :> 20161101)
    @@ ("2016-11-03" :> 20161103) @@ ("2017-04-15" :> 20170415) @@ ("2017-10-17" :> 20171017)
    @@ ("2017-10-20" :> 20171020) @@ ("2017-10-21" :> 20171021) @@ ("2017-10-24" :> 20171024)
    @@ ("2018-04-14" :> 20180414)

\* pd.to_datetime on a game-log date
Player_to_datetime(v) ==
    IF v[1] = "str" /\ v[2] \in DOMAIN GameDateValue THEN Date(GameDateValue[v[2]]) ELSE v

\* A game-log page holds a layout table and, for a season the player played,
\* the regular-season table and possibly the playoff table, which the site
\* puts inside an HTML comment.  Both categories list the same games.
Player_thead(category) ==
    IF category = "basic"
    THEN <<Cell("ranker", "Rk"), Cell("date_game", "Date"), Cell("game_location", ""),
           Cell("gs", "GS"), Cell("pts", "PTS")>>
    ELSE <<Cell("ranker", "Rk"), Cell("date_game", "Date"), Cell("game_location", ""),
           Cell("off_rtg", "ORtg")>>

\* The k-th body row of a table: a game (odd k: away, started; even k: at
\* home with blank cells) or a repeated sub-heading.
Player_body_row(kind, date, k, category) ==
    IF kind = "thead" THEN [cls |-> "thead", td |-> <<>>]
    ELSE [cls |-> "",
          td |-> <<Cell("date_game", date),
                   Cell("game_location", IF k % 2 = 1 THEN "@" ELSE "")>>
                 \o (IF category = "basic"
                     THEN <<Cell("gs", IF k % 2 = 1 THEN "1" ELSE ""),
                            Cell("pts", IF k % 2 = 1 THEN "30" ELSE "8")>>
                     ELSE <<Cell("off_rtg", IF k % 2 = 1 THEN "118" ELSE "")>>)]

LayoutTable == [cls |-> "", hidden |-> FALSE, thead |-> <<>>, body |-> <<>>]

\* What a season looks like: the kinds of the regular-season table's rows
\* (none: the player did not play) and whether there is a playoff table.
TableShapes == {sh \in RowSeqs({"game", "thead"}, MaxRows) : sh # <<>> /\ sh[1] = "game"}
SeasonShapes ==
    {[regular |-> <<>>, playoffs |-> FALSE]}
    \cup {[regular |-> sh, playoffs |-> p] : sh \in TableShapes, p \in BOOLEAN}

Player_page(season, shape, category) ==
    <<LayoutTable>>
    \o (IF shape.regular = <<>> THEN <<>>
        ELSE <<[cls |-> "row_summable", hidden |-> FALSE, thead |-> Player_thead(category),
                body |-> [k \in DOMAIN shape.regular |->
                             Player_body_row(shape.regular[k], GameDates[season][k], k, category)]]>>)
    \o (IF shape.playoffs
        THEN <<[cls |-> "row_summable", hidden |-> TRUE, thead |-> Player_thead(category),
                body |-> <<Player_body_row("game", PlayoffDates[season], 1, category)>>]>>
        ELSE <<>>)

\* str(webpage).replace("\n<!--\n","\n").replace("\n-->\n","\n"): the tables
\* inside comments become tables of the page.
Uncomment(page) == [k \in DOMAIN page |-> [page[k] EXCEPT !.hidden = FALSE]]

is_row_summable(table) == ~table.hidden /\ table.cls = "row_summable"

\* if row.attr("class") == "thead": continue
Player_is_data_row(row) == row.cls # "thead"

\* rows of one table (player.py lines 50-59)
Player_rows(table) ==
    LET kept == SelectSeq(table.body, Player_is_data_row)
    IN [k \in DOMAIN kept |-> DictOfCells(kept[k].td, TRUE)]

\* columns, as the loop over the tables leaves it (player.py lines 43-47)
Player_columns(table) ==
    ("game_location" :> "away_game") @@ ("game_result" :> "game_result")
    @@ ("date_game" :> "date") @@ ("gs" :> "started") @@ HeaderLabels(table.thead)

\* df["away_game"] = df["away_game"].apply(lambda x: x == "@")
Player_away_game(df) ==
    [df EXCEPT !.rows = [n \in DOMAIN df.rows |->
                            [df.rows[n] EXCEPT !["away_game"] = Bool(@ = Str("@"))]]]

Player_date(df) ==
    [df EXCEPT !.rows = [n \in DOMAIN df.rows |->
                            [df.rows[n] EXCEPT !["date"] = Player_to_datetime(@)]]]

\* _process_webpage of player.py from line 37 on: the page has data tables
Player_process_tables(tbls) ==
    LET frames == [k \in DOMAIN tbls |-> DataFrameOfDicts(Player_rows(tbls[k]))]
        named == rename(ConcatRows(frames, TRUE), Player_columns(tbls[Len(tbls)]))
    IN IF "away_game" \notin Range(named.columns) THEN Raise("KeyError")
       ELSE LET typed == to_numeric(Player_away_game(named), Range(named.columns))
            IN IF "date" \notin Range(typed.columns) THEN Raise("AttributeError")
               ELSE Ok(Player_date(typed))

\* _process_webpage of player.py without the check for a page with no data:
\* pd.concat of no frames raises ValueError
Player_process_webpage_unguarded(webpage) ==
    LET tbls == SelectSeq(webpage, is_row_summable)
    IN IF tbls = <<>> THEN Raise("ValueError") ELSE Player_process_tables(tbls)

\* _process_webpage of player.py
Player_process_webpage(webpage) ==
    LET tbls == SelectSeq(webpage, is_row_summable)
    IN IF tbls = <<>>
       THEN Ok([columns |-> <<"date">>, index |-> <<>>, rows |-> <<>>])
       ELSE Player_process_tables(tbls)

\* df.set_index("date")
set_index_date(df) ==
    LET cols == SelectSeq(df.columns, LAMBDA c : c # "date")
    IN [columns |-> cols,
        index |-> [n \in DOMAIN df.rows |-> df.rows[n]["date"]],
        rows |-> [n \in DOMAIN df.rows |-> [c \in Range(cols) |-> df.rows[n][c]]]]

\* pd.concat(dfs, ignore_index=True, sort=False).set_index("date")
Player_concat(frames) ==
    IF frames = <<>> THEN Raise("ValueError") ELSE Ok(set_index_date(ConcatRows(frames, TRUE)))

\* columns_to_add without the difference: every advanced column
columns_to_add_all(basic, adv) == adv.columns

\* to_merge[1].columns.difference(to_merge[0].columns)
columns_to_add(basic, adv) == SortedLabels(Range(adv.columns) \ Range(basic.columns))

HasDuplicates(s) == \E a, b \in DOMAIN s : a # b /\ s[a] = s[b]

\* pd.concat([left, right], axis=1): the rows are joined on the index.  Equal
\* indexes are kept as they are; otherwise the index is the union of the two,
\* which needs both to be free of duplicates.
ConcatColumns(left, right) ==
    LET cols == left.columns \o right.columns
    IN IF left.index = right.index
       THEN Ok([columns |-> cols,
                index |-> left.index,
                rows |-> [n \in DOMAIN left.rows |-> left.rows[n] @@ right.rows[n]]])
       ELSE IF HasDuplicates(left.index) \/ HasDuplicates(right.index)
       THEN Raise("InvalidIndexError")
       ELSE LET idx == Dedup(left.index \o right.index)
                at(df, lbl) ==
                    IF lbl \in Range(df.index)
                    THEN df.rows[CHOOSE n \in DOMAIN df.index : df.index[n] = lbl]
                    ELSE [c \in Range(df.columns) |-> NaN]
            IN Ok([columns |-> cols,
                   index |-> idx,
                   rows |-> [n \in DOMAIN idx |-> at(left, idx[n]) @@ at(right, idx[n])]])

\* self.df = pd.concat([to_merge[0], to_merge[1][columns_to_add]], axis=1)
Player_merge(basic, adv) ==
    ConcatColumns(basic, SelectColumns(adv, columns_to_add(basic, adv)))

base_urls(advanced) == IF advanced THEN <<"basic", "advanced">> ELSE <<"basic">>

SeasonLists == UNION {[1..k -> Seasons] : k \in 1..MaxSeasons}

PlayerInit ==
    /\ pc = "seasons"
    /\ err = "none"
    /\ web \in [Seasons -> SeasonShapes]
    /\ args \in {[seasons |-> ss, advanced |-> a] : ss \in SeasonLists, a \in BOOLEAN}
    /\ i = 1
    /\ j = 1
    /\ fetched = <<>>
    /\ dfs = <<>>
    /\ to_merge = <<>>
    /\ tables = <<>>
    /\ self_df = <<>>
    /\ final_score = <<>>

\* One turn of the loop over seasons: fetch the page, uncomment it, process
\* it, append its frame.
PlayerSeason ==
    /\ pc = "seasons"
    /\ i <= Len(base_urls(args.advanced))
    /\ j <= Len(args.seasons)
    /\ LET category == base_urls(args.advanced)[i]
           season == args.seasons[j]
           r == Player_process_webpage(Uncomment(Player_page(season, web[season], category)))
       IN /\ fetched' = Append(fetched, <<category, season, "ok">>)
          /\ IF r.err = "none"
             THEN /\ dfs' = Append(dfs, r.value)
                  /\ j' = j + 1
                  /\ UNCHANGED <<pc, err>>
             ELSE /\ pc' = "raised"
                  /\ err' = r.err
                  /\ UNCHANGED <<dfs, j>>
    /\ UNCHANGED <<web, args, i, to_merge, tables, self_df, final_score>>

\* PlayerFetchError with the except clause of SeasonSchedule: the season is
\* skipped
PlayerFetchError_skips ==
    /\ pc = "seasons"
    /\ i <= Len(base_urls(args.advanced))
    /\ j <= Len(args.seasons)
    /\ fetched' = Append(fetched, <<base_urls(args.advanced)[i], args.seasons[j], "error">>)
    /\ j' = j + 1
    /\ UNCHANGED <<pc, err, web, args, i, dfs, to_merge, tables, self_df, final_score>>

\* The same turn when pq(url) raises (no such page, no network): nothing
\* catches it.
PlayerFetchError ==
    /\ pc = "seasons"
    /\ i <= Len(base_urls(args.advanced))
    /\ j <= Len(args.seasons)
    /\ fetched' = Append(fetched, <<base_urls(args.advanced)[i], args.seasons[j], "error">>)
    /\ pc' = "raised"
    /\ err' = "HTTPError"
    /\ UNCHANGED <<web, args, i, j, dfs, to_merge, tables, self_df, final_score>>

\* After the seasons of one category: to_merge.append(pd.concat(dfs, ...))
PlayerConcat ==
    /\ pc = "seasons"
    /\ i <= Len(base_urls(args.advanced))
    /\ j > Len(args.seasons)
    /\ LET r == Player_concat(dfs)
       IN IF r.err = "none"
          THEN /\ to_merge' = Append(to_merge, r.value)
               /\ dfs' = <<>>
               /\ i' = i + 1
               /\ j' = 1
               /\ pc' = IF i + 1 > Len(base_urls(args.advanced)) THEN "merge" ELSE "seasons"
               /\ UNCHANGED err
          ELSE /\ pc' = "raised"
               /\ err' = r.err
               /\ UNCHANGED <<to_merge, dfs, i, j>>
    /\ UNCHANGED <<web, args, fetched, tables, self_df, final_score>>

\* if advanced: self.df = the merge, else: self.df = to_merge[0]
PlayerMerge ==
    /\ pc = "merge"
    /\ LET r == IF args.advanced THEN Player_merge(to_merge[1], to_merge[2]) ELSE Ok(to_merge[1])
       IN IF r.err = "none"
          THEN /\ self_df' = <<r.value>>
               /\ pc' = "done"
               /\ UNCHANGED err
          ELSE /\ pc' = "raised"
               /\ err' = r.err
               /\ UNCHANGED self_df
    /\ UNCHANGED <<web, args, i, j, fetched, dfs, to_merge, tables, final_score>>

PlayerNext == PlayerSeason \/ PlayerFetchError \/ PlayerConcat \/ PlayerMerge

SpecPlayer == PlayerInit /\ [][PlayerNext]_vars

\* The merge alone, over pairs of tables indexed by the same game: the basic
\* and the advanced table each have up to MaxCols of the columns A, B, C.
MaxCols == 2

MergeLabels == {"A", "B", "C"}

ColumnLists == {cs \in UNION {[1..k -> MergeLabels] : k \in 0..MaxCols} : ~HasDuplicates(cs)}

MergeFrames ==
    UNION {{[columns |-> cs, index |-> <<Date(20171017)>>, rows |-> <<r>>] :
               r \in [Range(cs) -> {Num(0), Num(1)}]} : cs \in ColumnLists}

MergeInit ==
    /\ pc = "merge"
    /\ err = "none"
    /\ web = [s \in Seasons |-> [regular |-> <<"game">>, playoffs |-> FALSE]]
    /\ args = [seasons |-> <<2018>>, advanced |-> TRUE]
    /\ i = 3
    /\ j = 1
    /\ fetched = <<<<"basic", 2018, "ok">>, <<"advanced", 2018, "ok">>>>
    /\ dfs = <<>>
    /\ to_merge \in {<<b, a>> : b \in MergeFrames, a \in MergeFrames}
    /\ tables = <<>>
    /\ self_df = <<>>
    /\ final_score = <<>>

SpecMerge == MergeInit /\ [][PlayerMerge]_vars

----------------------------------------------------------------------------
(* box_score.py *)

MaxExtraTables == 1   \* tables of a box-score page beyond the four

\* A Python str handled piece by piece: its pieces in order.
Text(pieces) == <<"text", pieces>>

Find(pieces, piece) ==
    IF piece \in Range(pieces)
    THEN CHOOSE k \in DOMAIN pieces :
            pieces[k] = piece /\ \A m \in DOMAIN pieces : pieces[m] = piece => k <= m
    ELSE 0

\* _title_process: the title is "<away> at <home> Box Score, <date>"
title_process(title) ==
    LET at == Find(title, " at ")
        bs == Find(title, " Box Score,")
    IN [away_team |-> Text(SubSeq(title, 1, at - 1)),
        home_team |-> Text(SubSeq(title, at + 1, bs - 1)),
        date |-> Text(SubSeq(title, bs + 2, Len(title)))]

BoxTitle == <<"BOS", " at ", "CLE", " Box Score,", " ", "May 19, 2018">>

\* The players of a side by their place in its tables, and what the page
\* prints for those who played.
SideNames ==
    [away |-> <<"A. Horford", "J. Tatum", "M. Smart", "T. Rozier">>,
     home |-> <<"L. James", "K. Love", "J. Smith", "K. Korver">>]
PtsText == <<"12", "7", "30", "2">>
MPText == <<"34:30", "12:00", "48:00", "0:00">>

\* The label row of a box-score table's header, under the grouping row.
Box_thead(category) ==
    <<<<Cell("", ""), Cell("", "Basic Box Score Stats")>>,
      <<Cell("player", "Starters"), Cell("mp", "MP")>>
      \o (IF category = "basic" THEN <<Cell("pts", "PTS")>> ELSE <<Cell("off_rtg", "ORtg")>>)>>

\* The k-th body row of a side's table: a player who played, a player who
\* did not (one "reason" cell), or the "Reserves" sub-heading.
Box_body_row(kind, side, k, category) ==
    IF kind = "thead" THEN [cls |-> "thead", th |-> "Reserves", td |-> <<>>]
    ELSE IF kind = "dnp"
    THEN [cls |-> "", th |-> SideNames[side][k], td |-> <<Cell("reason", "Did Not Play")>>]
    ELSE [cls |-> "", th |-> SideNames[side][k],
          td |-> <<Cell("mp", MPText[k])>>
                 \o (IF category = "basic" THEN <<Cell("pts", PtsText[k])>>
                     ELSE <<Cell("off_rtg", IF k % 2 = 1 THEN "118" ELSE "")>>)]

Box_page_table(shape, side, category) ==
    [caption |-> side, thead |-> Box_thead(category),
     body |-> [k \in DOMAIN shape |-> Box_body_row(shape[k], side, k, category)]]

ExtraTable == [caption |-> "", thead |-> <<>>, body |-> <<>>]

\* A side's rows: at least one of its players played.
SideShapes == {sh \in RowSeqs({"played", "dnp", "thead"}, MaxRows) : "played" \in Range(sh)}

\* The tables of a page: the first n of away basic, away advanced, home
\* basic, home advanced and the further tables.
Box_page_tables(site) ==
    SubSeq(<<Box_page_table(site.away, "away", "basic"),
             Box_page_table(site.away, "away", "advanced"),
             Box_page_table(site.home, "home", "basic"),
             Box_page_table(site.home, "home", "advanced")>>
           \o [k \in 1..MaxExtraTables |-> ExtraTable],
           1, site.ntables)

Box_is_data_row(row) == row.cls # "thead"

RECURSIVE Box_rows(_)
\* rows, the dict of the players' dicts (box_score.py lines 50-65)
Box_rows(body) ==
    IF body = <<>> THEN EmptyDict
    ELSE LET row == body[Len(body)]
             front == Box_rows(SubSeq(body, 1, Len(body) - 1))
         IN IF Box_is_data_row(row)
            THEN DictSet(front, row.th, DictOfCells(row.td, TRUE))
            ELSE front

\* pd.DataFrame(rows).T: one row per key of rows, indexed by the key
DataFrameOfRows(rows) ==
    LET cols == Dedup(Flatten([k \in DOMAIN rows.keys |-> rows.val[rows.keys[k]].keys]))
    IN [columns |-> cols,
        index |-> [k \in DOMAIN rows.keys |-> Str(rows.keys[k])],
        rows |-> [k \in DOMAIN rows.keys |-> Reindexed(rows.val[rows.keys[k]].val, cols)]]

isnull(v) == v \in {NaN, None}

\* table("thead")("tr").eq(1)("th")
Box_header(table) == IF Len(table.thead) >= 2 THEN table.thead[2] ELSE <<>>

\* the frame of one table with the players who did not play kept: the
\* "reason" column is dropped, its rows are not
Box_table_keeps_inactive(table) ==
    LET df == rename(DataFrameOfRows(Box_rows(table.body)), HeaderLabels(Box_header(table)))
    IN IF "reason" \in Range(df.columns) THEN drop_column(df, "reason").value ELSE df

\* the frame of one table (box_score.py lines 36-73)
Box_table(table) ==
    LET df == rename(DataFrameOfRows(Box_rows(table.body)), HeaderLabels(Box_header(table)))
    IN IF "reason" \in Range(df.columns)
       THEN drop_column(FilterRows(df, {n \in DOMAIN df.rows : isnull(df.rows[n]["reason"])}),
                        "reason").value
       ELSE df

\* pd.concat([tbls[a], tbls[b].drop(columns=["MP"])], axis=1, sort=False)
Box_side(tbls, a, b) ==
    IF Len(tbls) < b THEN Raise("IndexError")
    ELSE LET adv == drop_column(tbls[b], "MP")
         IN IF adv.err # "none" THEN adv ELSE ConcatColumns(tbls[a], adv.value)

\* df["Team"] = len(df)*[team]
WithColumn(df, c, v) ==
    [columns |-> IF c \in Range(df.columns) THEN df.columns ELSE Append(df.columns, c),
     index |-> df.index,
     rows |-> [n \in DOMAIN df.rows |-> (c :> v) @@ df.rows[n]]]

\* The end of _process_webpage (box_score.py lines 77-89).
Box_merge_sides(tbls, teams) ==
    LET away_df == Box_side(tbls, 1, 2)
        home_df == Box_side(tbls, 3, 4)
    IN IF away_df.err # "none" THEN away_df
       ELSE IF home_df.err # "none" THEN home_df
       ELSE Ok(ConcatRows(<<WithColumn(away_df.value, "Team", teams.away_team),
                            WithColumn(home_df.value, "Team", teams.home_team)>>, FALSE))

\* The end of _process_webpage with the count of the tables validated first
Box_merge_validated(tbls, teams) ==
    IF Len(tbls) # 4 THEN Raise("ValueError") ELSE Box_merge_sides(tbls, teams)

Box_merge(tbls, teams) == Box_merge_sides(tbls, teams)

\* The minutes and seconds of the "m:s" texts of the pages.
MPValue ==
    ("34:30" :> <<34, 30>>) @@ ("12:00" :> <<12, 0>>) @@ ("48:00" :> <<48, 0>>)
    @@ ("0:00" :> <<0, 0>>)

\* A float64 of this column: int + the sum of frac[k] * 2^-k, the binary
\* digits of its fraction written out to the last place the format keeps
\* (53 significant binary digits).
Float(int, frac) == <<"float", int, frac>>

Significand == 53

RECURSIVE Log2(_)
\* the exponent of an integer n >= 1
Log2(n) == IF n < 2 THEN 0 ELSE 1 + Log2(n \div 2)

\* 2^n modulo 60: 1, 2, then 4, 8, 16, 32 over and over
TwoToThe(n) == IF n < 2 THEN n + 1 ELSE <<4, 8, 16, 32>>[((n - 2) % 4) + 1]

\* what the long division of r by 60 leaves after n binary digits:
\* r/60 = 0.b1..bn + DivRem(r, n)/(60 * 2^n), 0 <= r < 60
DivRem(r, n) == (r * TwoToThe(n)) % 60

\* the first n binary digits of r/60 after the point
DivBits(r, n) == [place \in 1..n |-> IF 2 * DivRem(r, place - 1) >= 60 THEN 1 ELSE 0]

\* one unit added in the last place of a fraction, with the carry out of it
AddUlp(frac) ==
    LET zeros == {k \in DOMAIN frac : frac[k] = 0}
    IN IF zeros = {} THEN [carry |-> 1, bits |-> [k \in DOMAIN frac |-> 0]]
       ELSE LET p == CHOOSE k \in zeros : \A m \in zeros : m <= k
            IN [carry |-> 0,
                bits |-> [k \in DOMAIN frac |-> IF k < p THEN frac[k] ELSE IF k = p THEN 1 ELSE 0]]

\* seconds/60.: the quotient rounded to the nearest float64, ties to even
fl_div60(sec) ==
    IF sec = 0 THEN Float(0, <<>>)
    ELSE LET lead == CHOOSE p \in 1..6 : DivBits(sec, 6)[p] = 1
                                          /\ \A q \in 1..(p - 1) : DivBits(sec, 6)[q] = 0
             places == lead + Significand - 1
             quotient == DivBits(sec, places)
             left == DivRem(sec, places)
             up == left > 30 \/ (left = 30 /\ quotient[places] = 1)
             raised == AddUlp(quotient)
         IN IF up THEN Float(raised.carry, raised.bits) ELSE Float(0, quotient)

\* the float64 nearest to whole + the fraction bits, ties to even, whole >= 1
fl_round(whole, bits) ==
    LET places == Significand - 1 - Log2(whole)
        padded == IF Len(bits) >= places THEN bits
                  ELSE bits \o [k \in 1..(places - Len(bits)) |-> 0]
        kept == SubSeq(padded, 1, places)
        rest == SubSeq(padded, places + 1, Len(padded))
        last == IF places = 0 THEN whole % 2 ELSE kept[places]
        up == /\ rest # <<>>
              /\ rest[1] = 1
              /\ (last = 1 \/ \E k \in 2..Len(rest) : rest[k] = 1)
        raised == AddUlp(kept)
    IN IF up THEN Float(whole + raised.carry, raised.bits) ELSE Float(whole, kept)

\* minutes + x for an int64 minutes and a float64 0 <= x < 2: the sum
\* rounded to the nearest float64
fl_add(m, x) ==
    IF m + x[2] = 0 THEN x
    ELSE LET sum == fl_round(m + x[2], x[3])
         IN Float(sum[2], SubSeq(sum[3], 1, Significand - 1 - Log2(sum[2])))

\* minutes + seconds/60. with the int division of Python 2 (seconds/60)
Minutes_floor_division(m, sec) == fl_add(m + sec \div 60, Float(0, <<>>))

\* minutes + seconds/60.
Minutes(m, sec) == fl_add(m, fl_div60(sec))

IsMPText(v) == v[1] = "str" /\ v[2] \in DOMAIN MPValue

\* _type_convert: every column but MP through pd.to_numeric, MP from "m:s"
type_convert(df) ==
    IF "MP" \notin Range(df.columns) THEN Raise("AttributeError")
    ELSE IF \E n \in DOMAIN df.rows : ~IsMPText(df.rows[n]["MP"]) THEN Raise("ValueError")
    ELSE LET typed == to_numeric(df, Range(df.columns) \ {"MP"})
         IN Ok([typed EXCEPT !.rows =
                   [n \in DOMAIN typed.rows |->
                       [typed.rows[n] EXCEPT !["MP"] = Minutes(MPValue[@[2]][1], MPValue[@[2]][2])]]])

RECURSIVE SumSeq(_)
SumSeq(s) == IF s = <<>> THEN 0 ELSE Head(s) + SumSeq(Tail(s))

\* what a value adds to a sum that skips NaN
Addend(v) == IF v[1] = "num" THEN v[2] ELSE 0

\* df.groupby("Team")["PTS"].sum(): one sum per team that has rows
groupby_Team_PTS_sum(df) ==
    [t \in {df.rows[n]["Team"] : n \in DOMAIN df.rows} |->
        SumSeq([n \in DOMAIN df.rows |->
                   IF df.rows[n]["Team"] = t THEN Addend(df.rows[n]["PTS"]) ELSE 0])]

BoxInit ==
    /\ pc = "tables"
    /\ err = "none"
    /\ web \in [title : {BoxTitle}, away : SideShapes, home : SideShapes,
                ntables : 0..(4 + MaxExtraTables)]
    /\ args = [uri |-> "201805190CLE"]
    /\ i = 1
    /\ j = 1
    /\ fetched = <<>>
    /\ dfs = <<>>
    /\ to_merge = <<>>
    /\ tables = <<>>
    /\ self_df = <<>>
    /\ final_score = <<>>

\* One turn of the loop over webpage("table"): the table's frame is appended.
BoxTable ==
    /\ pc = "tables"
    /\ i <= Len(Box_page_tables(web))
    /\ tables' = Append(tables, Box_table(Box_page_tables(web)[i]))
    /\ i' = i + 1
    /\ UNCHANGED <<pc, err, web, args, j, fetched, dfs, to_merge, self_df, final_score>>

\* After the loop: the sides are merged and _process_webpage returns.
BoxMerge ==
    /\ pc = "tables"
    /\ i > Len(Box_page_tables(web))
    /\ LET r == Box_merge(tables, title_process(web.title))
       IN IF r.err = "none"
          THEN /\ self_df' = <<r.value>>
               /\ pc' = "convert"
               /\ UNCHANGED err
          ELSE /\ pc' = "raised"
               /\ err' = r.err
               /\ UNCHANGED self_df
    /\ UNCHANGED <<web, args, i, j, fetched, dfs, to_merge, tables, final_score>>

\* self.df = _type_convert(self.df); self.df["date"] = len(self.df)*[self.date]
BoxTypeConvert ==
    /\ pc = "convert"
    /\ LET r == type_convert(self_df[1])
       IN IF r.err = "none"
          THEN /\ self_df' = <<WithColumn(r.value, "date", title_process(web.title).date)>>
               /\ pc' = "score"
               /\ UNCHANGED err
          ELSE /\ pc' = "raised"
               /\ err' = r.err
               /\ UNCHANGED self_df
    /\ UNCHANGED <<web, args, i, j, fetched, dfs, to_merge, tables, final_score>>

\* self.final_score = self.df.groupby("Team")["PTS"].sum()
BoxFinalScore ==
    /\ pc = "score"
    /\ final_score' = <<groupby_Team_PTS_sum(self_df[1])>>
    /\ pc' = "done"
    /\ UNCHANGED <<err, web, args, i, j, fetched, dfs, to_merge, tables, self_df>>

BoxNext == BoxTable \/ BoxMerge \/ BoxTypeConvert \/ BoxFinalScore

SpecBox == BoxInit /\ [][BoxNext]_vars

----------------------------------------------------------------------------
(* roster.py *)

MaxRosterRows == 3   \* body rows of a roster table

\* Body rows of a roster page: the number in the row's th, the name and the
\* link to the player's page in its first td.
RosterRowPool ==
    {[th |-> "1", name |-> "Devin Booker",
      href |-> <<"/", "players", "/", "b", "/", "bookede01", ".", "html">>],
     [th |-> "", name |-> "Devin Booker",
      href |-> <<"/", "players", "/", "b", "/", "bookede01", ".", "html">>],
     [th |-> "0", name |-> "Trevor Ariza",
      href |-> <<"/", "players", "/", "a", "/", "arizatr01", ".", "html">>],
     [th |-> "00", name |-> "Isaiah Canaan",
      href |-> <<"/", "players", "/", "c", "/", "canaais01", ".", "html">>]}

RosterPages == RowSeqs(RosterRowPool, MaxRosterRows)

\* str.rfind and str.find, counting from 0, -1 when there is no such piece
RFind0(pieces, piece) ==
    IF piece \in Range(pieces)
    THEN (CHOOSE k \in DOMAIN pieces :
             pieces[k] = piece /\ \A m \in DOMAIN pieces : pieces[m] = piece => m <= k) - 1
    ELSE -1
Find0(pieces, piece) == Find(pieces, piece) - 1

\* s[a:b] of Python, a >= 0
Slice(pieces, a, b) == SubSeq(pieces, a + 1, IF b < 0 THEN Len(pieces) + b ELSE b)

\* uri[uri.rfind("/")+1:uri.find(".")]
Roster_uri(href) == Slice(href, RFind0(href, "/") + 1, Find0(href, "."))

\* [number, name, uri] of one body row (roster.py lines 36-48)
Roster_row(row) ==
    [number |-> replace_get(row.th), player |-> Str(row.name), uri |-> Text(Roster_uri(row.href))]

Roster_columns == <<"number", "player", "uri">>

\* df.drop_duplicates() left out
keep_duplicates(df) == df

\* df.drop_duplicates(): of equal rows the first is kept
drop_duplicates(df) ==
    LET keep == SelectSeq([n \in DOMAIN df.rows |-> n],
                          LAMBDA n : \A m \in 1..(n - 1) : df.rows[m] # df.rows[n])
    IN [columns |-> df.columns,
        index |-> [k \in DOMAIN keep |-> df.index[keep[k]]],
        rows |-> [k \in DOMAIN keep |-> df.rows[keep[k]]]]

\* the roster table of _process_webpage of roster.py
Roster_process_webpage(body) ==
    LET df == [columns |-> Roster_columns,
               index |-> RangeIndex(Len(body)),
               rows |-> [k \in DOMAIN body |-> Roster_row(body[k])]]
    IN drop_duplicates(to_numeric(df, Range(df.columns)))

\* df.dropna(): the rows without a missing value
dropna(df) ==
    FilterRows(df, {n \in DOMAIN df.rows : \A c \in DOMAIN df.rows[n] : ~isnull(df.rows[n][c])})

RosterInit ==
    /\ pc = "fetch"
    /\ err = "none"
    /\ web \in RosterPages
    /\ args \in {[team |-> "PHO", season |-> 2019, dropna |-> d] : d \in BOOLEAN}
    /\ i = 1
    /\ j = 1
    /\ fetched = <<>>
    /\ dfs = <<>>
    /\ to_merge = <<>>
    /\ tables = <<>>
    /\ self_df = <<>>
    /\ final_score = <<>>

\* webpage = pq(self.url); self.description, self.df = _process_webpage(webpage)
RosterProcess ==
    /\ pc = "fetch"
    /\ fetched' = Append(fetched, <<args.team, args.season>>)
    /\ self_df' = <<Roster_process_webpage(web)>>
    /\ pc' = IF args.dropna THEN "dropna" ELSE "done"
    /\ UNCHANGED <<err, web, args, i, j, dfs, to_merge, tables, final_score>>

\* pq(self.url) raises: nothing catches it
RosterFetchError ==
    /\ pc = "fetch"
    /\ fetched' = Append(fetched, <<args.team, args.season>>)
    /\ pc' = "raised"
    /\ err' = "HTTPError"
    /\ UNCHANGED <<web, args, i, j, dfs, to_merge, tables, self_df, final_score>>

\* if dropna: self.df = self.df.dropna()
RosterDropna ==
    /\ pc = "dropna"
    /\ self_df' = <<dropna(self_df[1])>>
    /\ pc' = "done"
    /\ UNCHANGED <<err, web, args, i, j, fetched, dfs, to_merge, tables, final_score>>

RosterNext == RosterProcess \/ RosterFetchError \/ RosterDropna

SpecRoster == RosterInit /\ [][RosterNext]_vars

----------------------------------------------------------------------------
(* Properties of SeasonSchedule *)

\* the months fetched so far whose page exists, in fetch order
FoundMonths == SelectSeq(fetched, LAMBDA m : web[m].status = 200)

\* the body rows of a page that are not the "Playoffs" line, in page order
GameRows(body) == SelectSeq(body, LAMBDA r : r.th[1].text # "Playoffs")

CellText(row, stat) == row.td[CHOOSE k \in DOMAIN row.td : row.td[k].stat = stat].text

\* out is the schedule row of the body row src
IsScheduleRowOf(out, src, date) ==
    /\ out["date"] = date
    /\ out["uri"] = Str(src.th[1].csk)
    /\ out["away"] = Str(CellText(src, "visitor_team_name"))
    /\ out["home"] = Str(CellText(src, "home_team_name"))
    /\ out["home_PTS"] = Str(CellText(src, "home_pts"))
    /\ out["away_PTS"] = Str(CellText(src, "visitor_pts"))
    /\ out["attendance"] = Str(CellText(src, "attendance"))

AllMonthsMissing == \A k \in DOMAIN args.months : web[args.months[k]].status = 404

ScheduleReturned == pc \in {"done", "raised"}

\* C2: SeasonSchedule over an empty month list, or over months whose pages
\* are all missing, completes without raising and yields an empty schedule
\* table with the fixed columns.
C2_EmptyScheduleIsEmptyTable ==
    (ScheduleReturned /\ AllMonthsMissing) =>
        /\ pc = "done"
        /\ err = "none"
        /\ self_df = <<[columns |-> Schedule_columns_named, index |-> <<>>, rows |-> <<>>]>>

\* the rows of the months whose page exists, in the given month order
ExpectedScheduleRows ==
    Flatten([k \in DOMAIN args.months |->
                IF web[args.months[k]].status = 200
                THEN GameRows(web[args.months[k]].body) ELSE <<>>])

\* C3: for every month list and every set of missing months, no error
\* reaches the caller and the resulting table is the concatenation, in month
\* order, of the rows of the months whose page exists.
C3_MissingMonthsAreSkipped ==
    ScheduleReturned =>
        /\ pc = "done"
        /\ err = "none"
        /\ Len(self_df) = 1
        /\ Len(self_df[1].rows) = Len(ExpectedScheduleRows)
        /\ \A n \in DOMAIN ExpectedScheduleRows :
              IsScheduleRowOf(self_df[1].rows[n], ExpectedScheduleRows[n],
                              Date(DateValue[ExpectedScheduleRows[n].th[1].text]))

\* What does hold of the months: a missing page never raises, and a schedule
\* that is returned is the concatenation of the existing months' rows.
ScheduleDoneIsConcatenation ==
    /\ err # "HTTPError"
    /\ pc = "done" =>
          /\ Len(self_df[1].rows) = Len(ExpectedScheduleRows)
          /\ \A n \in DOMAIN ExpectedScheduleRows :
                IsScheduleRowOf(self_df[1].rows[n], ExpectedScheduleRows[n],
                                Date(DateValue[ExpectedScheduleRows[n].th[1].text]))

\* C6: of a processed schedule page, every row whose date is "Playoffs" is
\* left out and every other row is in the output exactly once, in page order
\* (a page none of whose rows is a game has no output: selecting the columns
\* raises KeyError).
C6_PlayoffsRowsExcluded ==
    /\ \A k \in DOMAIN dfs :
          LET src == GameRows(web[FoundMonths[k]].body)
          IN /\ Len(dfs[k].rows) = Len(src)
             /\ \A n \in DOMAIN src :
                   IsScheduleRowOf(dfs[k].rows[n], src[n], Str(src[n].th[1].text))
             /\ \A n \in DOMAIN dfs[k].rows : dfs[k].rows[n]["date"] # Str("Playoffs")
    /\ (pc = "raised" /\ err = "KeyError") =>
          GameRows(web[fetched[Len(fetched)]].body) = <<>>

\* a processed page with a game after its "Playoffs" line
C6_Witness ==
    \E k \in DOMAIN dfs :
        LET body == web[FoundMonths[k]].body
        IN /\ Len(body) >= 2
           /\ body[1].th[1].text = "Playoffs"
           /\ body[2].th[1].text # "Playoffs"
           /\ Len(dfs[k].rows) >= 1

\* every frame the constructors hold
FramesHeld == Range(dfs) \cup Range(to_merge) \cup Range(tables) \cup Range(self_df)

\* C10: no extracted row holds an empty string as a cell value: every empty
\* source cell is the missing-value sentinel.
C10_NoEmptyStringCell ==
    \A f \in FramesHeld : \A n \in DOMAIN f.rows : \A c \in DOMAIN f.rows[n] :
        f.rows[n][c] # Str("")

----------------------------------------------------------------------------
(* Properties of Player *)

\* the fetches of a complete run: the basic pages of every season in the
\* given order, then the advanced ones
ExpectedFetches ==
    Flatten([c \in DOMAIN base_urls(args.advanced) |->
                [k \in DOMAIN args.seasons |-> <<base_urls(args.advanced)[c], args.seasons[k]>>]])

\* C7: pages are fetched one at a time in the order basic (every season in
\* the given order) then advanced, each exactly once; a fetch that raises is
\* the last one, its error leaves the constructor and no table is produced.
C7_NoSeasonSkipping ==
    /\ Len(fetched) <= Len(ExpectedFetches)
    /\ \A k \in DOMAIN fetched :
          /\ <<fetched[k][1], fetched[k][2]>> = ExpectedFetches[k]
          /\ fetched[k][3] = "error" =>
                /\ k = Len(fetched)
                /\ pc = "raised"
                /\ err = "HTTPError"
                /\ self_df = <<>>
                /\ ~ENABLED PlayerNext
    /\ pc \in {"merge", "done"} => Len(fetched) = Len(ExpectedFetches)
    /\ pc = "done" => Len(self_df) = 1

\* a run whose fetch of a later page raised
C7_Witness ==
    /\ pc = "raised"
    /\ Len(fetched) >= 2
    /\ fetched[Len(fetched)][3] = "error"

\* the games of a season in page order: the game rows of the regular-season
\* table, then the playoff game
SeasonGames(season) ==
    LET shape == web[season]
        ks == SelectSeq([k \in DOMAIN shape.regular |-> k], LAMBDA k : shape.regular[k] = "game")
    IN [n \in DOMAIN ks |-> [date |-> GameDates[season][ks[n]], away |-> ks[n] % 2 = 1]]
       \o (IF shape.playoffs THEN <<[date |-> PlayoffDates[season], away |-> TRUE]>> ELSE <<>>)

ExpectedGames == Flatten([k \in DOMAIN args.seasons |-> SeasonGames(args.seasons[k])])

\* a category's table holds exactly the expected games, in order
IsGameLogOf(f, games, category) ==
    /\ Len(f.rows) = Len(games)
    /\ \A n \in DOMAIN games :
          /\ f.index[n] = Date(GameDateValue[games[n].date])
          /\ f.rows[n]["away_game"] = Bool(games[n].away)
          /\ category = "basic" => f.rows[n]["PTS"] = Num(IF games[n].away THEN 30 ELSE 8)
          /\ category = "advanced" => f.rows[n]["ORtg"] = (IF games[n].away THEN Num(118) ELSE NaN)

\* C8: a season page with no row_summable table gives an empty record set
\* and no error: the aggregation completes and the table holds exactly the
\* rows of the seasons that have data, in season order then page order.
C8_EmptySeasonsAreEmpty ==
    /\ err \in {"none", "HTTPError"}
    /\ \A k \in DOMAIN to_merge : IsGameLogOf(to_merge[k], ExpectedGames, base_urls(args.advanced)[k])
    /\ pc = "done" =>
          /\ IsGameLogOf(self_df[1], ExpectedGames, "basic")
          /\ args.advanced => IsGameLogOf(self_df[1], ExpectedGames, "advanced")

\* a finished run over a season without data followed by a season with data
C8_Witness ==
    /\ pc = "done"
    /\ Len(args.seasons) = 2
    /\ web[args.seasons[1]].regular = <<>>
    /\ web[args.seasons[2]].regular # <<>>
    /\ Len(self_df[1].rows) >= 1

\* a finished run all of whose seasons are without data
AllSeasonsEmptyDone ==
    /\ pc = "done"
    /\ \A k \in DOMAIN args.seasons : web[args.seasons[k]].regular = <<>>
    /\ self_df[1].rows = <<>>

\* C1: with advanced stats, the merged columns are the basic columns
\* followed by exactly the advanced columns the basic table lacks, and every
\* basic column keeps its basic values; so with disjoint columns the count is
\* basic + advanced, and with every advanced column in the basic table the
\* merged table is the basic table.
C1_MergeKeepsBasicColumns ==
    pc = "done" =>
        LET basic == to_merge[1]
            adv == to_merge[2]
            merged == self_df[1]
            added == Range(adv.columns) \ Range(basic.columns)
        IN /\ Len(merged.columns) = Len(basic.columns) + Cardinality(added)
           /\ SubSeq(merged.columns, 1, Len(basic.columns)) = basic.columns
           /\ {merged.columns[k] : k \in (Len(basic.columns) + 1)..Len(merged.columns)} = added
           /\ Len(merged.rows) = Len(basic.rows)
           /\ \A n \in DOMAIN merged.rows :
                 /\ \A c \in Range(basic.columns) : merged.rows[n][c] = basic.rows[n][c]
                 /\ \A c \in added : merged.rows[n][c] = adv.rows[n][c]
           /\ Range(basic.columns) \cap Range(adv.columns) = {} =>
                 Len(merged.columns) = Len(basic.columns) + Len(adv.columns)
           /\ Range(adv.columns) \subseteq Range(basic.columns) => merged = basic

\* a merge of tables that share a column with different values and differ in
\* another
C1_Witness ==
    /\ pc = "done"
    /\ \E c \in Range(to_merge[1].columns) \cap Range(to_merge[2].columns) :
          to_merge[1].rows[1][c] # to_merge[2].rows[1][c]
    /\ Range(to_merge[2].columns) \ Range(to_merge[1].columns) # {}
    /\ Len(self_df[1].columns) = 3

----------------------------------------------------------------------------
(* Properties of BoxScore *)

BoxReturned == pc \in {"done", "raised"}

\* C4, as claimed: parsing fails whenever the page does not hold exactly four
\* tables, be they fewer or more.
C4_FailsUnlessFourTables ==
    (BoxReturned /\ web.ntables # 4) => (pc = "raised" /\ self_df = <<>>)

\* the players of a side who played, in table order
ActiveNames(side) ==
    LET ks == SelectSeq([k \in DOMAIN web[side] |-> k], LAMBDA k : web[side][k] = "played")
    IN [n \in DOMAIN ks |-> Str(SideNames[side][ks[n]])]

\* a side's players and those of them marked with a reason
RosterSize(side) == Cardinality({k \in DOMAIN web[side] : web[side][k] # "thead"})
InactiveCount(side) == Cardinality({k \in DOMAIN web[side] : web[side][k] = "dnp"})

\* the points the page prints for the players of a side who played
ExpectedPoints(side) ==
    SumSeq([k \in DOMAIN web[side] |->
               IF web[side][k] = "played" THEN NumeralValue[PtsText[k]] ELSE 0])

\* the frame holds one row per player who played, away then home, each
\* tagged with its side's team, and no "reason" column
IsBoxScoreOfPage(df) ==
    /\ df.index = ActiveNames("away") \o ActiveNames("home")
    /\ Len(df.rows) = (RosterSize("away") - InactiveCount("away"))
                      + (RosterSize("home") - InactiveCount("home"))
    /\ "reason" \notin Range(df.columns)
    /\ \A n \in DOMAIN df.rows :
          df.rows[n]["Team"] = (IF n <= Len(ActiveNames("away"))
                                THEN Text(<<"BOS">>) ELSE Text(<<"CLE">>))

\* C4, amended: parsing fails (IndexError, no result) whenever the page
\* holds fewer than four tables; a page with more than four is not rejected:
\* its first four tables are parsed and the others ignored.
C4_FailsBelowFourTables ==
    /\ (BoxReturned /\ web.ntables < 4) =>
          /\ pc = "raised"
          /\ err = "IndexError"
          /\ self_df = <<>>
          /\ final_score = <<>>
    /\ web.ntables > 4 => err = "none"
    /\ (pc = "done" /\ web.ntables > 4) => IsBoxScoreOfPage(self_df[1])

\* a page of three tables whose parsing has raised
C4_Witness ==
    /\ pc = "raised"
    /\ web.ntables = 3
    /\ Len(tables) = 3

\* a page of five tables parsed to the end
FiveTablesParsed == pc = "done" /\ web.ntables = 5 /\ Len(tables) = 5

\* C5: for every four-table page the output holds exactly one row per player
\* whose "reason" is empty and none for the others, so the row count is
\* (away roster - away inactive) + (home roster - home inactive); it has no
\* "reason" column; each row is tagged with its side's team; final_score of
\* a team is the sum of PTS of the team's output rows.
C5_OneRowPerActivePlayer ==
    /\ web.ntables = 4 => err = "none"
    /\ \A k \in DOMAIN tables :
          k <= 4 =>
              /\ tables[k].index = ActiveNames(IF k <= 2 THEN "away" ELSE "home")
              /\ "reason" \notin Range(tables[k].columns)
    /\ Len(self_df) = 1 => IsBoxScoreOfPage(self_df[1])
    /\ pc = "done" =>
          /\ DOMAIN final_score[1] = {Text(<<"BOS">>), Text(<<"CLE">>)}
          /\ final_score[1][Text(<<"BOS">>)] = ExpectedPoints("away")
          /\ final_score[1][Text(<<"CLE">>)] = ExpectedPoints("home")
          /\ \A t \in DOMAIN final_score[1] :
                final_score[1][t] =
                    SumSeq([n \in DOMAIN self_df[1].rows |->
                               IF self_df[1].rows[n]["Team"] = t
                               THEN self_df[1].rows[n]["PTS"][2] ELSE 0])

\* a four-table page, parsed to the end, with a player on each side who did
\* not play
C5_Witness ==
    /\ pc = "done"
    /\ web.ntables = 4
    /\ InactiveCount("away") = 1
    /\ InactiveCount("home") = 1
    /\ Len(self_df[1].rows) = 2

----------------------------------------------------------------------------
(* Properties of Roster *)

\* self.df is what _process_webpage returned
RosterProcessed == pc = "dropna" \/ (pc = "done" /\ ~args.dropna)

\* the output row r is the source row src
IsRosterRowOf(r, src) ==
    /\ r["player"] = Str(src.name)
    /\ r["uri"] = Text(<<src.href[6]>>)
    /\ r["number"] = (IF src.th = "" THEN NaN ELSE Num(NumeralValue[src.th]))

----------------------------------------------------------------------------
(* The loops over body("tr"): player.py, box_score.py, schedule.py *)

RowComponents == {"player", "box", "schedule"}

\* A repeated column-heading row of a schedule table: class "thead", header
\* cells only.
SchedHeadingRow ==
    [cls |-> "thead",
     th |-> <<[text |-> "Date", csk |-> Absent], [text |-> "Visitor/Neutral", csk |-> Absent]>>,
     td |-> <<>>]

\* The tables a component's loop can be given: any mix of data rows and
\* class-marked sub-heading rows.
RowTables(component) ==
    IF component = "player"
    THEN {[cls |-> "row_summable", hidden |-> FALSE, thead |-> Player_thead(c),
           body |-> [k \in DOMAIN sh |-> Player_body_row(sh[k], GameDates[2018][k], k, c)]] :
             sh \in RowSeqs({"game", "thead"}, MaxRows), c \in {"basic", "advanced"}}
    ELSE IF component = "box"
    THEN {Box_page_table(sh, side, c) :
             sh \in RowSeqs({"played", "dnp", "thead"}, MaxRows),
             side \in {"away", "home"}, c \in {"basic", "advanced"}}
    ELSE {[body |-> b] : b \in RowSeqs(SchedRowPool \cup {SchedHeadingRow}, MaxRows)}

RowsInit ==
    /\ pc = "rows"
    /\ err = "none"
    /\ args \in {[component |-> c] : c \in RowComponents}
    /\ web \in RowTables(args.component)
    /\ i = 1
    /\ j = 1
    /\ fetched = <<>>
    /\ dfs = <<>>
    /\ to_merge = <<>>
    /\ tables = <<>>
    /\ self_df = <<>>
    /\ final_score = <<>>

\* The loop of player._process_webpage over one table's body rows.
RowsPlayer ==
    /\ pc = "rows"
    /\ args.component = "player"
    /\ dfs' = <<Player_rows(web)>>
    /\ pc' = "done"
    /\ UNCHANGED <<err, web, args, i, j, fetched, to_merge, tables, self_df, final_score>>

\* The loop of box_score._process_webpage over one table's body rows.
RowsBox ==
    /\ pc = "rows"
    /\ args.component = "box"
    /\ dfs' = <<Box_rows(web.body)>>
    /\ pc' = "done"
    /\ UNCHANGED <<err, web, args, i, j, fetched, to_merge, tables, self_df, final_score>>

\* The loop of schedule._process_webpage over the page's body rows.
RowsSchedule ==
    /\ pc = "rows"
    /\ args.component = "schedule"
    /\ dfs' = <<Schedule_rows(web.body)>>
    /\ pc' = "done"
    /\ UNCHANGED <<err, web, args, i, j, fetched, to_merge, tables, self_df, final_score>>

RowsNext == RowsPlayer \/ RowsBox \/ RowsSchedule

SpecRows == RowsInit /\ [][RowsNext]_vars

----------------------------------------------------------------------------
(* Properties of the extracted rows *)

IsSubheading(row) == row.cls = "thead"

NotSubheading(row) == ~IsSubheading(row)

\* the row a component makes of one body row
ExtractedFrom(component, row) ==
    IF component = "player" THEN DictOfCells(row.td, TRUE)
    ELSE IF component = "box" THEN DictOfCells(row.td, TRUE)
    ELSE Schedule_this_row(row)

\* the extracted rows in page order (the box score's are keyed by player)
ExtractedSeq(component, rows) ==
    IF component = "box" THEN [k \in DOMAIN rows.keys |-> rows.val[rows.keys[k]]]
    ELSE rows

\* C11: sub-heading rows (body rows of class "thead") never appear in the
\* rows a component extracts from a table: the extracted rows are exactly
\* the body rows that are not class-marked as sub-headings, in page order.
C11_SubheadingRowsNeverExtracted ==
    pc = "done" /\ args.component \in RowComponents =>
        LET data == SelectSeq(web.body, NotSubheading)
            got == ExtractedSeq(args.component, dfs[1])
        IN /\ Len(got) = Len(data)
           /\ \A k \in DOMAIN got : got[k] = ExtractedFrom(args.component, data[k])

\* the same for the two components that test the class of the row
PlayerAndBoxSkipSubheadings ==
    args.component \in {"player", "box"} => C11_SubheadingRowsNeverExtracted

----------------------------------------------------------------------------
(* box_score.py, _type_convert: the MP column *)

MaxMinutes == 63   \* the most minutes a text of the MP column shows

DigitValue ==
    ("0" :> 0) @@ ("1" :> 1) @@ ("2" :> 2) @@ ("3" :> 3) @@ ("4" :> 4)
    @@ ("5" :> 5) @@ ("6" :> 6) @@ ("7" :> 7) @@ ("8" :> 8) @@ ("9" :> 9)

Digit(d) == CHOOSE c \in DOMAIN DigitValue : DigitValue[c] = d

RECURSIVE DigitsOf(_)
\* the decimal numeral of n >= 0, character by character
DigitsOf(n) == IF n < 10 THEN <<Digit(n)>> ELSE Append(DigitsOf(n \div 10), Digit(n % 10))

\* what the page prints for m minutes and sec seconds: "m:ss"
MPTextOf(m, sec) == DigitsOf(m) \o <<":", Digit(sec \div 10), Digit(sec % 10)>>

RECURSIVE IntOfDigits(_)
\* astype(int) of a numeral
IntOfDigits(chars) ==
    IF chars = <<>> THEN 0
    ELSE 10 * IntOfDigits(SubSeq(chars, 1, Len(chars) - 1)) + DigitValue[chars[Len(chars)]]

\* s[:s.find(":")] and s[s.find(":")+1:] as ints, then minutes+seconds/60.
MP_convert(text) ==
    LET minutes == IntOfDigits(Slice(text, 0, Find0(text, ":")))
        seconds == IntOfDigits(Slice(text, Find0(text, ":") + 1, Len(text)))
    IN Minutes(minutes, seconds)

\* One cell of the MP column, of a player who played args.minutes minutes
\* and args.seconds seconds.
MinutesInit ==
    /\ pc = "mp"
    /\ err = "none"
    /\ args \in [minutes : 0..MaxMinutes, seconds : 0..59]
    /\ web = MPTextOf(args.minutes, args.seconds)
    /\ i = 1
    /\ j = 1
    /\ fetched = <<>>
    /\ dfs = <<>>
    /\ to_merge = <<>>
    /\ tables = <<>>
    /\ self_df = <<>>
    /\ final_score = <<>>

\* df["MP"] = minutes+seconds/60. on that cell
MPConvert ==
    /\ pc = "mp"
    /\ self_df' = <<MP_convert(web)>>
    /\ pc' = "converted"
    /\ UNCHANGED <<err, web, args, i, j, fetched, dfs, to_merge, tables, final_score>>

SpecMinutes == MinutesInit /\ [][MPConvert]_vars

----------------------------------------------------------------------------
(* Properties of the MP column *)

\* 60 * v = 60 * m + sec for a float v: its fraction is d/60 to the last
\* digit, where d is what the whole part of v leaves of 60 * m + sec
IsExactly(v, m, sec) ==
    LET d == sec - 60 * (v[2] - m)
    IN /\ d \in 0..59
       /\ v[3] = DivBits(d, Len(v[3]))
       /\ DivRem(d, Len(v[3])) = 0

\* the binary digits a float64 of this size keeps after the point
PlacesOf(v) ==
    IF v[2] >= 1 THEN Significand - 1 - Log2(v[2])
    ELSE IF \E k \in DOMAIN v[3] : v[3][k] = 1
    THEN (CHOOSE k \in DOMAIN v[3] : v[3][k] = 1 /\ \A q \in 1..(k - 1) : v[3][q] = 0)
         + Significand - 1
    ELSE 0

\* m + sec/60 cut off after the digits v keeps: the float64 next below it
\* (or equal to it)
CutOff(v, m, sec) == Float(m, DivBits(sec, Len(v[3])))

\* v is one of the two float64 next to m + sec/60
IsNeighbour(v, m, sec) ==
    LET below == CutOff(v, m, sec)
        raised == AddUlp(below[3])
    IN /\ Len(v[3]) = PlacesOf(v)
       /\ v \in {below, Float(m + raised.carry, raised.bits)}

\* C12: the minutes-played conversion is exact: for every text "m:s" the
\* converted value v satisfies 60*v = 60*m + s.
C12_MinutesConversionExact ==
    pc = "converted" => IsExactly(self_df[1], args.minutes, args.seconds)

\* C12, amended: the conversion is exact when the seconds are a multiple of
\* 15 ("0:00" gives 0.0, "34:30" gives 34.5, "48:00" gives 48.0); for all
\* other seconds v is a float64 next to m + s/60 and differs from it.
C12_ExactOnQuarterMinutes ==
    pc = "converted" =>
        LET v == self_df[1]
            m == args.minutes
            sec == args.seconds
        IN /\ sec % 15 = 0 => IsExactly(v, m, sec)
           /\ sec % 15 # 0 => ~IsExactly(v, m, sec) /\ IsNeighbour(v, m, sec)

\* "12:20" converted: the float64 above 12 + 1/3
C12_Witness ==
    /\ pc = "converted"
    /\ web = <<"1", "2", ":", "2", "0">>
    /\ self_df[1][2] = 12
    /\ Len(self_df[1][3]) = 49
    /\ self_df[1] # CutOff(self_df[1], 12, 20)
    /\ ~IsExactly(self_df[1], 12, 20)

\* "34:30" converted: 34.5
MinutesHalfConverted ==
    /\ pc = "converted"
    /\ web = <<"3", "4", ":", "3", "0">>
    /\ self_df[1] = Float(34, <<1>> \o [k \in 1..46 |-> 0])

====
